---- MODULE Spec2Model ----
(***************************************************************************)
(* Model of the lynx-http observability middleware (TracerLogPack and      *)
(* TracerLogPackWithMetrics) and of the helpers it calls, and of the       *)
(* response envelope layer: the response and error encoders and the        *)
(* handlers for unmatched routes and unsupported methods.                  *)
(*                                                                         *)
(* Strings that the code inspects character by character (the traceparent  *)
(* header, the Trace-Id / Span-Id response headers) are sequences of       *)
(* character codes: 0..15 are the lower-case hex digits '0'..'f', 16 is    *)
(* 'g' (some character that is no hex digit), 17 is 'n', 18 is 'o'.        *)
(* Trace and span ids inside a SpanContext are numbers (the value of the   *)
(* id's bytes).                                                            *)
(***************************************************************************)
EXTENDS Integers, Sequences, FiniteSets, Bags, TLC

\* ----------------------------------------------------------------- bounds

\* Number of request slots that may run the middleware concurrently (SpecConc).
MaxConc == 2
\* Number of requests that may be started in one behaviour of SpecConc.
MaxStarted == 3
\* Hex digits of a trace id and of a span id (32 and 16 in W3C trace context,
\* scaled down so that an id's value stays a small number).
TraceIdHexLen == 4
SpanIdHexLen == 2
\* Number of responses the envelope layer writes in one behaviour of SpecHttp.
MaxServed == 2

\* ------------------------------------------------------ program constants

maxBodySize == 1048576
traceIDNone == <<17, 18, 17, 14>>
spanIDNone == <<17, 18, 17, 14>>
jsonContentType == "application/json"

\* ------------------------------------------------------------------ state

VARIABLES
    variant,            \* which constructor built the middleware: "plain" is
                        \* TracerLogPack, "metrics" TracerLogPackWithMetrics
    service,            \* the *ServiceHttp the metrics middleware was built with
    reqs,               \* per slot: one invocation of the middleware closure
    started,            \* number of invocations begun so far
    completed,          \* number of invocations with a transport that returned
    inflightRequests,   \* gauge vector: operation -> value
    requestSize,        \* histogram: bag of <<method, operation, bytes>>
    responseSize,       \* histogram: bag of <<method, operation, bytes>>
    requestDuration,    \* histogram: bag of <<method, operation>>
    requestCounter,     \* counter vector: bag of <<method, operation, status>>
    errorCounter,       \* counter vector: bag of <<method, operation, kind>>
                        \* (middleware) and <<method, path, reason>> (handlers)
    ErrorCodeMapper,    \* ServiceHttp.ErrorCodeMapper: "nil" or a mapper's name
    call,               \* one invocation of an encoder or fallback handler
    served              \* number of such invocations begun so far

httpVars == <<ErrorCodeMapper, call, served>>

vars == <<variant, service, reqs, started, completed, inflightRequests, requestSize, responseSize,
          requestDuration, requestCounter, errorCounter, httpVars>>

sinks == <<inflightRequests, requestSize, responseSize, requestDuration,
           requestCounter, errorCounter>>

Slots == 1..MaxConc
Apis == {"opA", "opB"}
Methods == {"GET", "POST"}
SinkNames == {"inflightRequests", "requestSize", "responseSize",
              "requestDuration", "requestCounter", "errorCounter"}

\* --------------------------------------------------------- trace context

RECURSIVE Pow16(_)
Pow16(n) == IF n = 0 THEN 1 ELSE 16 * Pow16(n - 1)

\* hex.Decode of a lower-case hex string into the number its bytes spell
RECURSIVE HexVal(_)
HexVal(s) == IF s = <<>> THEN 0
             ELSE 16 * HexVal(SubSeq(s, 1, Len(s) - 1)) + s[Len(s)]

\* TraceID.String() / SpanID.String(): lower-case hex of the id, fixed width
HexStr(n, len) == [i \in 1..len |-> (n \div Pow16(len - i)) % 16]

IsHex(s, len) == Len(s) = len /\ \A i \in 1..len : s[i] \in 0..15

NoSpan == [tid |-> 0, sid |-> 0]

\* trace.SpanContext.IsValid
IsValid(span) == span.tid # 0 /\ span.sid # 0

\* propagation.TraceContext's parse of the traceparent header value, given as
\* its "-"-separated fields <<version, trace-id, parent-id, flags, ...>>; the
\* empty string is <<>>.  The result may still be an invalid (all-zero) span.
ParseTraceparent(h) ==
    IF Len(h) < 4 THEN NoSpan
    ELSE IF \/ ~IsHex(h[1], 2)
            \/ h[1] = <<15, 15>>
            \/ (h[1] = <<0, 0>> /\ Len(h) # 4)
            \/ ~IsHex(h[2], TraceIdHexLen)
            \/ ~IsHex(h[3], SpanIdHexLen)
            \/ ~IsHex(h[4], 2)
         THEN NoSpan
         ELSE [tid |-> HexVal(h[2]), sid |-> HexVal(h[3])]

\* Mutant: a valid span already in the context is kept
PropagatorExtractKeepsContextSpan(ctxSpan, header) ==
    LET sc == ParseTraceparent(header.traceparent)
    IN  IF IsValid(ctxSpan) THEN ctxSpan
        ELSE IF IsValid(sc) THEN sc ELSE ctxSpan

\* tracePropagator.Extract(ctx, carrier): a valid span parsed from the header
\* becomes the context's (remote) span; otherwise the context is returned as is.
PropagatorExtract(ctxSpan, header) ==
    LET sc == ParseTraceparent(header.traceparent)
    IN  IF IsValid(sc) THEN sc ELSE ctxSpan

\* A context is modelled by the span it carries; NilHeader is a nil
\* transport.Header.  xff and xri are the values stored under X-Forwarded-For
\* and X-Real-IP: <<>> when the header is absent, <<"">> when it is present
\* with an empty value.
NilHeader == [isNil |-> TRUE, traceparent |-> <<>>, xff |-> <<>>, xri |-> <<>>]

extractTraceContextFromRequest(ctxSpan, reqHeader) ==
    IF reqHeader.isNil THEN ctxSpan
    ELSE PropagatorExtract(ctxSpan, reqHeader)

\* Mutant: each id is rendered on its own, "none" standing in for a zero id
traceIDAndSpanIDFromSpanPerId(span) ==
    [traceID |-> IF span.tid # 0 THEN HexStr(span.tid, TraceIdHexLen)
                 ELSE traceIDNone,
     spanID  |-> IF span.sid # 0 THEN HexStr(span.sid, SpanIdHexLen)
                 ELSE spanIDNone]

\* Lines 58-63
traceIDAndSpanIDFromSpan(span) ==
    IF IsValid(span)
    THEN [traceID |-> HexStr(span.tid, TraceIdHexLen),
          spanID  |-> HexStr(span.sid, SpanIdHexLen)]
    ELSE [traceID |-> traceIDNone, spanID |-> spanIDNone]

\* header.Get(key): the first value stored under the key, "" when there is none
HeaderGet(values) == IF values = <<>> THEN "" ELSE values[1]

\* Mutant: X-Real-IP is looked up first
getClientIPRealIPFirst(header) ==
    IF HeaderGet(header.xri) # "" THEN HeaderGet(header.xri)
    ELSE IF HeaderGet(header.xff) # "" THEN HeaderGet(header.xff)
    ELSE "unknown"

\* Lines 66-73
getClientIP(header) ==
    IF HeaderGet(header.xff) # "" THEN HeaderGet(header.xff)
    ELSE IF HeaderGet(header.xri) # "" THEN HeaderGet(header.xri)
    ELSE "unknown"

\* --------------------------------------------------------------- payloads

\* A request or reply value: kind "proto" is a proto.Message that marshals,
\* "protobad" a proto.Message whose marshalling fails, "plain" any other Go
\* value, "nil" the nil interface.  json is the length of its protojson (for a
\* plain value: of its %#v text), wire the length of its binary encoding.
NilPayload == [kind |-> "nil", id |-> "nil", json |-> 0, wire |-> 0]

IsProtoMessage(p) == p.kind \in {"proto", "protobad"}

\* Mutant: a body of exactly maxBodySize bytes is already replaced
safeProtoToJSONLimitInclusive(msg) ==
    IF msg.kind = "protobad"
    THEN [body |-> [form |-> "empty", id |-> "", size |-> 0], err |-> "marshal"]
    ELSE IF msg.json >= maxBodySize
         THEN [body |-> [form |-> "too_large", id |-> "", size |-> msg.json],
               err |-> "nil"]
         ELSE [body |-> [form |-> "json", id |-> msg.id, size |-> msg.json],
               err |-> "nil"]

\* Lines 76-85: protojson.Marshal, then the size test on the JSON bytes
safeProtoToJSON(msg) ==
    IF msg.kind = "protobad"
    THEN [body |-> [form |-> "empty", id |-> "", size |-> 0], err |-> "marshal"]
    ELSE IF msg.json > maxBodySize
         THEN [body |-> [form |-> "too_large", id |-> "", size |-> msg.json],
               err |-> "nil"]
         ELSE [body |-> [form |-> "json", id |-> msg.id, size |-> msg.json],
               err |-> "nil"]

\* The body string both middlewares build for the request and the reply log
LogBody(p) ==
    IF IsProtoMessage(p)
    THEN LET res == safeProtoToJSON(p)
         IN  IF res.err = "nil" THEN res.body
             ELSE [form |-> "failed_to_marshal", id |-> "", size |-> 0]
    ELSE [form |-> "gosyntax", id |-> p.id, size |-> p.json]

\* proto.Marshal(msg): the wire size, or an error
ProtoMarshal(msg) ==
    IF msg.kind = "proto" THEN [ok |-> TRUE, len |-> msg.wire]
    ELSE [ok |-> FALSE, len |-> 0]

\* ----------------------------------------------------------------- events

\* What one invocation did, in program order (a record of the calls it made
\* on the logger, the sinks, the handler and the reply header).
EmptyBody == [form |-> "empty", id |-> "", size |-> 0]

Ev(name) == [ev |-> name, lvl |-> "", body |-> EmptyBody, ip |-> "",
             span |-> NoSpan, label |-> <<>>, val |-> 0]

EvLog(name, lvl, body, ip) == [Ev(name) EXCEPT !.lvl = lvl, !.body = body, !.ip = ip]

EvMetric(name, label, val) == [Ev(name) EXCEPT !.label = label, !.val = val]

EvInvoke(span, req) ==
    [Ev("invoke") EXCEPT !.span = span,
                         !.body = [form |-> "value", id |-> req.id, size |-> req.json]]

\* ---------------------------------------------------------------- service

\* Mutant: metrics are recorded only by a service that has every sink
HasSinkAllOrNothing(name) == ~service.isNil /\ service.sinks = SinkNames

\* A sink is recorded on when the service and that sink are both non-nil
\* (lines 231, 236, 277-302)
HasSink(name) == ~service.isNil /\ name \in service.sinks

FullService == [isNil |-> FALSE, sinks |-> SinkNames]
NilService == [isNil |-> TRUE, sinks |-> {}]

\* The label the middleware passes as the HTTP method of every metric
MetricMethod == "POST"

\* --------------------------------------------------------------- requests

NoRet == [set |-> FALSE, reply |-> NilPayload, err |-> "nil"]
NoReplyHeader == [TraceId |-> <<>>, SpanId |-> <<>>, ContentType |-> ""]

IdleReq ==
    [pc |-> "idle", entryErr |-> "nil", ctxErr |-> "nil", hasTr |-> FALSE,
     ctxSpan |-> NoSpan, header |-> NilHeader, req |-> NilPayload,
     method |-> "GET", api |-> "opA",
     ctx |-> NoSpan, traceID |-> <<>>, spanID |-> <<>>, gaugeDeferred |-> FALSE,
     reply |-> NilPayload, err |-> "nil", panicked |-> FALSE, hspan |-> NoSpan,
     hret |-> NoRet,
     ret |-> NoRet, replyHeader |-> NoReplyHeader, events |-> <<>>]

\* Mutant: the entry check is missing and the handler is called all the same
EnterCancelledCheckMissing(r, in) ==
    /\ in.ctxErr # "nil"
    /\ reqs' = [reqs EXCEPT ![r] =
                  [IdleReq EXCEPT !.pc = "direct",
                                  !.entryErr = in.ctxErr, !.ctxErr = in.ctxErr,
                                  !.req = in.req,
                                  !.events = <<EvInvoke(in.ctxSpan, in.req)>>]]
    /\ UNCHANGED sinks

\* Lines 91-94 / 181-184: the context is already cancelled or expired
EnterCancelled(r, in) ==
    /\ in.ctxErr # "nil"
    /\ reqs' = [reqs EXCEPT ![r] =
                  [IdleReq EXCEPT !.pc = "done",
                                  !.entryErr = in.ctxErr, !.ctxErr = in.ctxErr,
                                  !.ret = [set |-> TRUE, reply |-> NilPayload,
                                           err |-> in.ctxErr]]]
    /\ UNCHANGED sinks

\* Mutant: without a transport the request is still logged
EnterNoTransportLogsRequest(r, in) ==
    /\ in.ctxErr = "nil"
    /\ ~in.hasTr
    /\ reqs' = [reqs EXCEPT ![r] =
                  [IdleReq EXCEPT !.pc = "direct",
                                  !.ctxSpan = in.ctxSpan, !.ctx = in.ctxSpan,
                                  !.req = in.req,
                                  !.events = <<EvLog("warn", "warn", EmptyBody, ""),
                                               EvLog("reqlog", "info", LogBody(in.req),
                                                     "unknown"),
                                               EvInvoke(in.ctxSpan, in.req)>>]]
    /\ UNCHANGED sinks

\* Mutant: without a transport the middleware warns and gives up
EnterNoTransportNoCall(r, in) ==
    /\ in.ctxErr = "nil"
    /\ ~in.hasTr
    /\ reqs' = [reqs EXCEPT ![r] =
                  [IdleReq EXCEPT !.pc = "done",
                                  !.ctxSpan = in.ctxSpan, !.ctx = in.ctxSpan,
                                  !.req = in.req,
                                  !.ret = [set |-> TRUE, reply |-> NilPayload,
                                           err |-> "nil"],
                                  !.events = <<EvLog("warn", "warn", EmptyBody, "")>>]]
    /\ UNCHANGED sinks

\* Lines 97-102 / 187-192: no transport in the context; the handler is called
\* with the context and request as received and its result is returned as is.
EnterNoTransport(r, in) ==
    /\ in.ctxErr = "nil"
    /\ ~in.hasTr
    /\ reqs' = [reqs EXCEPT ![r] =
                  [IdleReq EXCEPT !.pc = "direct",
                                  !.ctxSpan = in.ctxSpan, !.ctx = in.ctxSpan,
                                  !.req = in.req,
                                  !.events = <<EvLog("warn", "warn", EmptyBody, ""),
                                               EvInvoke(in.ctxSpan, in.req)>>]]
    /\ UNCHANGED sinks

\* Mutant: the request is logged only once the handler has been called
EntryEventsLogAfterCall(in, ctx, gauge, rsize) ==
    <<Ev("extract"), EvInvoke(ctx, in.req),
      EvLog("reqlog", "info", LogBody(in.req), getClientIP(in.header))>>
    \o (IF gauge THEN <<EvMetric("gauge_inc", <<in.api>>, 1)>> ELSE <<>>)
    \o (IF rsize
        THEN <<EvMetric("reqsize", <<MetricMethod, in.api>>, ProtoMarshal(in.req).len)>>
        ELSE <<>>)

\* The calls made on the path with a transport up to and including the call
\* of the handler, in program order (lines 105-144 / 194-245)
EntryEvents(in, ctx, gauge, rsize) ==
    <<Ev("extract"),
      EvLog("reqlog", "info", LogBody(in.req), getClientIP(in.header))>>
    \o (IF gauge THEN <<EvMetric("gauge_inc", <<in.api>>, 1)>> ELSE <<>>)
    \o (IF rsize
        THEN <<EvMetric("reqsize", <<MetricMethod, in.api>>, ProtoMarshal(in.req).len)>>
        ELSE <<>>)
    \o <<EvInvoke(ctx, in.req)>>

\* Lines 105-144 / 194-245: trace extraction, request log, (metrics variant)
\* in-flight gauge and request size, then the call of the handler.
EnterTransport(r, in) ==
    LET ctx   == extractTraceContextFromRequest(in.ctxSpan, in.header)
        ids   == traceIDAndSpanIDFromSpan(ctx)
        m     == variant = "metrics"
        gauge == m /\ HasSink("inflightRequests")
        data  == ProtoMarshal(in.req)
        rsize == m /\ HasSink("requestSize") /\ IsProtoMessage(in.req) /\ data.ok
        evs   == EntryEvents(in, ctx, gauge, rsize)
    IN  /\ in.ctxErr = "nil"
        /\ in.hasTr
        /\ reqs' = [reqs EXCEPT ![r] =
                      [IdleReq EXCEPT !.pc = "handler",
                                      !.hasTr = TRUE, !.ctxSpan = in.ctxSpan,
                                      !.header = in.header, !.req = in.req,
                                      !.method = in.method, !.api = in.api,
                                      !.ctx = ctx, !.traceID = ids.traceID,
                                      !.spanID = ids.spanID,
                                      !.gaugeDeferred = gauge,
                                      !.events = evs]]
        /\ inflightRequests' =
              IF gauge
              THEN [inflightRequests EXCEPT ![in.api] = @ + 1]
              ELSE inflightRequests
        /\ requestSize' =
              IF rsize
              THEN requestSize (+) SetToBag({<<MetricMethod, in.api, data.len>>})
              ELSE requestSize
        /\ UNCHANGED <<responseSize, requestDuration, requestCounter, errorCounter>>

\* The middleware closure is entered with context, transport and request `in`
Enter(r, in, limit) ==
    /\ reqs[r].pc = "idle"
    /\ started < limit
    /\ started' = started + 1
    /\ UNCHANGED completed
    /\ \/ EnterCancelled(r, in)
       \/ EnterNoTransport(r, in)
       \/ EnterTransport(r, in)
    /\ UNCHANGED <<variant, service, httpVars>>

\* The context passed to the handler is cancelled or expires while the handler
\* runs or once it has returned; the handler owns its reaction to that.
CancelCtx(r, e) ==
    /\ reqs[r].pc \in {"handler", "direct", "returned"}
    /\ reqs[r].ctxErr = "nil"
    /\ reqs' = [reqs EXCEPT ![r].ctxErr = e]
    /\ UNCHANGED <<variant, service, started, completed, sinks, httpVars>>

\* Lines 144 / 245: handler(ctx, req) returns (reply, err) or panics.  out.hspan
\* is the span of a context the handler derived for its own work.
HandlerReturn(r, out) ==
    /\ reqs[r].pc = "handler"
    /\ reqs' = [reqs EXCEPT ![r] =
                  IF out.panic
                  THEN [@ EXCEPT !.pc = "defers", !.panicked = TRUE,
                                 !.hspan = out.hspan,
                                 !.events = @ \o <<Ev("panic")>>]
                  ELSE [@ EXCEPT !.pc = "returned", !.reply = out.reply,
                                 !.err = out.err, !.hspan = out.hspan,
                                 !.hret = [set |-> TRUE, reply |-> out.reply,
                                           err |-> out.err],
                                 !.events = @ \o <<Ev("return")>>]]
    /\ UNCHANGED <<variant, service, started, completed, sinks, httpVars>>

\* Lines 101 / 191: `return handler(ctx, req)` on the path without transport
DirectReturn(r, out) ==
    /\ reqs[r].pc = "direct"
    /\ reqs' = [reqs EXCEPT ![r] =
                  IF out.panic
                  THEN [@ EXCEPT !.pc = "panicked", !.panicked = TRUE,
                                 !.hspan = out.hspan,
                                 !.events = @ \o <<Ev("panic")>>]
                  ELSE [@ EXCEPT !.pc = "done", !.reply = out.reply,
                                 !.err = out.err, !.hspan = out.hspan,
                                 !.hret = [set |-> TRUE, reply |-> out.reply,
                                           err |-> out.err],
                                 !.ret = [set |-> TRUE, reply |-> out.reply,
                                          err |-> out.err],
                                 !.events = @ \o <<Ev("return")>>]]
    /\ UNCHANGED <<variant, service, started, completed, sinks, httpVars>>

\* Lines 164-170 / 268-274: the level of the response log
ResponseLogLevel(rq) == IF rq.err # "nil" THEN "error" ELSE "info"

\* Mutant: the status label is never switched to "error"
CounterStatusAlwaysSuccess(rq) == "success"

\* Lines 285-288: the status label of the request counter
CounterStatus(rq) == IF rq.err # "nil" THEN "error" ELSE "success"

\* Lines 302: whether the error counter is incremented
CountsAsError(rq) == rq.err # "nil"

\* Mutant: a reply that cannot be marshalled for the log fails the request
ReturnValueFailsOnMarshal(rq) ==
    IF LogBody(rq.reply).form = "failed_to_marshal"
    THEN [set |-> TRUE, reply |-> NilPayload, err |-> "marshal"]
    ELSE [set |-> TRUE, reply |-> rq.reply, err |-> rq.err]

\* Mutant: the context is checked again before returning
ReturnValueRechecksContext(rq) ==
    IF rq.ctxErr # "nil"
    THEN [set |-> TRUE, reply |-> NilPayload, err |-> rq.ctxErr]
    ELSE [set |-> TRUE, reply |-> rq.reply, err |-> rq.err]

\* Lines 172 / 307: `return reply, err`
ReturnValue(rq) == [set |-> TRUE, reply |-> rq.reply, err |-> rq.err]

\* Mutant: the reply header is annotated right after the response log, ahead
\* of the metrics
AfterAnnotatesHeadersFirst(r) ==
    LET rq    == reqs[r]
        m     == variant = "metrics" /\ ~service.isNil
        dur   == m /\ HasSink("requestDuration")
        cnt   == m /\ HasSink("requestCounter")
        data  == ProtoMarshal(rq.reply)
        rsz   == m /\ HasSink("responseSize") /\ rq.reply.kind # "nil"
                   /\ IsProtoMessage(rq.reply) /\ data.ok
        ecnt  == m /\ CountsAsError(rq) /\ HasSink("errorCounter")
        evs   == <<EvLog("resplog", ResponseLogLevel(rq), LogBody(rq.reply), ""),
                   Ev("headers")>>
                 \o (IF dur THEN <<EvMetric("duration", <<MetricMethod, rq.api>>, 0)>>
                     ELSE <<>>)
                 \o (IF cnt
                     THEN <<EvMetric("counter",
                                     <<MetricMethod, rq.api, CounterStatus(rq)>>, 1)>>
                     ELSE <<>>)
                 \o (IF rsz
                     THEN <<EvMetric("respsize", <<MetricMethod, rq.api>>, data.len)>>
                     ELSE <<>>)
                 \o (IF ecnt
                     THEN <<EvMetric("errcount",
                                     <<MetricMethod, rq.api, "tracer_error">>, 1)>>
                     ELSE <<>>)
    IN  /\ rq.pc = "returned"
        /\ reqs' = [reqs EXCEPT ![r] =
                      [@ EXCEPT !.pc = "defers", !.ret = ReturnValue(rq),
                                !.events = @ \o evs]]
        /\ requestDuration' =
              IF dur THEN requestDuration (+) SetToBag({<<MetricMethod, rq.api>>})
              ELSE requestDuration
        /\ requestCounter' =
              IF cnt
              THEN requestCounter
                     (+) SetToBag({<<MetricMethod, rq.api, CounterStatus(rq)>>})
              ELSE requestCounter
        /\ responseSize' =
              IF rsz
              THEN responseSize (+) SetToBag({<<MetricMethod, rq.api, data.len>>})
              ELSE responseSize
        /\ errorCounter' =
              IF ecnt
              THEN errorCounter
                     (+) SetToBag({<<MetricMethod, rq.api, "tracer_error">>})
              ELSE errorCounter
        /\ UNCHANGED <<variant, service, started, completed, inflightRequests,
                       requestSize, httpVars>>

\* Lines 146-172 / 247-307: response log, (metrics variant) the recorded
\* metrics, and the return statement; the deferred calls are still to run.
After(r) ==
    LET rq    == reqs[r]
        m     == variant = "metrics" /\ ~service.isNil
        dur   == m /\ HasSink("requestDuration")
        cnt   == m /\ HasSink("requestCounter")
        data  == ProtoMarshal(rq.reply)
        rsz   == m /\ HasSink("responseSize") /\ rq.reply.kind # "nil"
                   /\ IsProtoMessage(rq.reply) /\ data.ok
        ecnt  == m /\ CountsAsError(rq) /\ HasSink("errorCounter")
        evs   == <<EvLog("resplog", ResponseLogLevel(rq), LogBody(rq.reply), "")>>
                 \o (IF dur THEN <<EvMetric("duration", <<MetricMethod, rq.api>>, 0)>>
                     ELSE <<>>)
                 \o (IF cnt
                     THEN <<EvMetric("counter",
                                     <<MetricMethod, rq.api, CounterStatus(rq)>>, 1)>>
                     ELSE <<>>)
                 \o (IF rsz
                     THEN <<EvMetric("respsize", <<MetricMethod, rq.api>>, data.len)>>
                     ELSE <<>>)
                 \o (IF ecnt
                     THEN <<EvMetric("errcount",
                                     <<MetricMethod, rq.api, "tracer_error">>, 1)>>
                     ELSE <<>>)
    IN  /\ rq.pc = "returned"
        /\ reqs' = [reqs EXCEPT ![r] =
                      [@ EXCEPT !.pc = "defers", !.ret = ReturnValue(rq),
                                !.events = @ \o evs]]
        /\ requestDuration' =
              IF dur THEN requestDuration (+) SetToBag({<<MetricMethod, rq.api>>})
              ELSE requestDuration
        /\ requestCounter' =
              IF cnt
              THEN requestCounter
                     (+) SetToBag({<<MetricMethod, rq.api, CounterStatus(rq)>>})
              ELSE requestCounter
        /\ responseSize' =
              IF rsz
              THEN responseSize (+) SetToBag({<<MetricMethod, rq.api, data.len>>})
              ELSE responseSize
        /\ errorCounter' =
              IF ecnt
              THEN errorCounter
                     (+) SetToBag({<<MetricMethod, rq.api, "tracer_error">>})
              ELSE errorCounter
        /\ UNCHANGED <<variant, service, started, completed, inflightRequests,
                       requestSize, httpVars>>

\* Mutant: the deferred closure reads the span of the handler's context
DeferredHeaderFromHandlerContext(rq) ==
    [TraceId |-> IF IsValid(rq.hspan) THEN HexStr(rq.hspan.tid, TraceIdHexLen)
                 ELSE rq.traceID,
     SpanId |-> IF IsValid(rq.hspan) THEN HexStr(rq.hspan.sid, SpanIdHexLen)
                ELSE rq.spanID,
     ContentType |-> IF IsProtoMessage(rq.reply) THEN jsonContentType
                     ELSE rq.replyHeader.ContentType]

\* Lines 113-120 / 202-209: the deferred closure's writes to the reply header;
\* traceID and spanID are the locals captured at entry, reply the named result.
DeferredHeader(rq) ==
    [TraceId |-> rq.traceID, SpanId |-> rq.spanID,
     ContentType |-> IF IsProtoMessage(rq.reply) THEN jsonContentType
                     ELSE rq.replyHeader.ContentType]

\* Mutant: Dec is a plain statement after the handler call, skipped by a panic
GaugeAfterDecNotDeferred(rq) ==
    IF rq.gaugeDeferred /\ ~rq.panicked
    THEN [inflightRequests EXCEPT ![rq.api] = @ - 1]
    ELSE inflightRequests

\* Line 233: the deferred Dec of the in-flight gauge
GaugeAfterDec(rq) ==
    IF rq.gaugeDeferred
    THEN [inflightRequests EXCEPT ![rq.api] = @ - 1]
    ELSE inflightRequests

\* The deferred calls, last registered first: the gauge's Dec (line 233), then
\* the reply header (lines 113-120 / 202-209).  They run on return and on panic.
Defers(r) ==
    LET rq  == reqs[r]
        evs == (IF rq.gaugeDeferred
                THEN <<EvMetric("gauge_dec", <<rq.api>>, 1)>> ELSE <<>>)
               \o <<Ev("headers")>>
    IN  /\ rq.pc = "defers"
        /\ reqs' = [reqs EXCEPT ![r] =
                      [@ EXCEPT !.pc = IF rq.panicked THEN "panicked" ELSE "done",
                                !.replyHeader = DeferredHeader(rq),
                                !.events = @ \o evs]]
        /\ inflightRequests' = GaugeAfterDec(rq)
        /\ completed' = IF rq.panicked THEN completed ELSE completed + 1
        /\ UNCHANGED <<variant, service, started, requestSize, responseSize,
                       requestDuration, requestCounter, errorCounter, httpVars>>

\* The invocation in slot r is over; the slot takes the next request.
Recycle(r) ==
    /\ reqs[r].pc \in {"done", "panicked"}
    /\ reqs' = [reqs EXCEPT ![r] = IdleReq]
    /\ UNCHANGED <<variant, service, started, completed, sinks, httpVars>>


\* -------------------------------------------------------- envelope layer

\* A JSON object with the fields of the envelope that are present
JsonObject(fields, code, message, data) ==
    [fields |-> fields, code |-> code, message |-> message, data |-> data]

NoBody == JsonObject({}, 0, "", "nil")

\* The literal envelopes `{"code": 404}`, `{"code": 405}`, `{"code": 500}`
HardCoded(code) == JsonObject({"code"}, code, "", "nil")

\* json.Marshal(map[string]interface{}{"code": code}): a map with one integer
\* value always marshals, and the key is written whatever the integer is
jsonMarshalMap(code) == [ok |-> TRUE, body |-> JsonObject({"code"}, code, "", "nil")]

\* The Response struct (encoder.go lines 16-30)
Response(code, message, data) == [Code |-> code, Message |-> message, Data |-> data]

\* json.Marshal(res) of a *Response: every field is tagged omitempty, so a zero
\* Code, an empty Message and a nil Data are left out; a Data value that JSON
\* cannot represent (a channel, a function) fails the whole marshalling
jsonMarshal(res) ==
    IF res.Data = "chan"
    THEN [ok |-> FALSE, body |-> NoBody]
    ELSE [ok |-> TRUE,
          body |-> JsonObject((IF res.Code # 0 THEN {"code"} ELSE {})
                                \cup (IF res.Message # "" THEN {"message"} ELSE {})
                                \cup (IF res.Data # "nil" THEN {"data"} ELSE {}),
                              res.Code, res.Message, res.Data)]

\* codec.Marshal(res) of the codec negotiated from Accept: the JSON codec uses
\* encoding/json for a value that is no proto.Message; the proto codec rejects
\* such a value
codecMarshal(codec, res) ==
    IF codec = "json" THEN jsonMarshal(res) ELSE [ok |-> FALSE, body |-> NoBody]

\* http.CodecForRequest(r, "Accept"): ok is false when Accept is absent or
\* names no registered codec
CodecForRequest(in) == [ok |-> in.codec # "none", codec |-> in.codec]

\* net/http's ResponseWriter.  status 0: no header written yet.  header is the
\* Content-Type in the header map, sentType the one that went out with the
\* status line; body is what Write was handed, delivered whether it got out.
NewWriter(fails) ==
    [status |-> 0, header |-> "", sentType |-> "", wrote |-> FALSE,
     body |-> NoBody, delivered |-> FALSE, fails |-> fails]

HeaderSet(w, contentType) == [w EXCEPT !.header = contentType]

WriteHeader(w, status) ==
    IF w.status # 0 THEN w
    ELSE [w EXCEPT !.status = status, !.sentType = w.header]

Write(w, data) ==
    LET w1 == WriteHeader(w, 200)
    IN  [w   |-> [w1 EXCEPT !.wrote = TRUE, !.body = data, !.delivered = ~w.fails],
         err |-> IF w.fails THEN "write" ELSE "nil"]

\* An error value handed to an error encoder: nil, a Kratos *errors.Error, or
\* any other error
NilErr == [kind |-> "nil", code |-> 0, reason |-> "", message |-> "", md |-> {}]
KratosErr(code, reason, message, md) ==
    [kind |-> "kratos", code |-> code, reason |-> reason, message |-> message,
     md |-> md]
PlainErr(message) ==
    [kind |-> "plain", code |-> 0, reason |-> "", message |-> message, md |-> {}]

\* errors.FromError(err): nil for nil, the error itself for a Kratos error,
\* and code 500 (UnknownCode) with the error's text for any other error
FromError(err) ==
    IF err.kind = "nil"
    THEN [isNil |-> TRUE, Code |-> 0, Reason |-> "", Message |-> "", Metadata |-> {}]
    ELSE IF err.kind = "kratos"
    THEN [isNil |-> FALSE, Code |-> err.code, Reason |-> err.reason,
          Message |-> err.message, Metadata |-> err.md]
    ELSE [isNil |-> FALSE, Code |-> 500, Reason |-> "", Message |-> err.message,
          Metadata |-> {}]

\* handlers.go lines 15-23
defaultErrorCode(se) ==
    IF se.isNil THEN 500
    ELSE IF se.Code # 0 THEN se.Code
    ELSE 500

\* Functions an application may install as ServiceHttp.ErrorCodeMapper
ApplyMapper(mapper, se) ==
    CASE mapper = "const123456" -> 123456
      [] mapper = "zero"        -> 0
      [] mapper = "negated"     -> IF se.isNil THEN 0 - 1 ELSE 0 - se.Code

\* Mutant: a mapper's result that is no positive code is replaced by 500
ErrorCodeResolverClamps(se) ==
    IF ErrorCodeMapper # "nil"
    THEN IF ApplyMapper(ErrorCodeMapper, se) > 0
         THEN ApplyMapper(ErrorCodeMapper, se) ELSE 500
    ELSE defaultErrorCode(se)

\* handlers.go lines 100-105: the code enhancedErrorEncoder puts in the envelope
ErrorCodeResolver(se) ==
    IF ErrorCodeMapper # "nil"
    THEN ApplyMapper(ErrorCodeMapper, se)
    ELSE defaultErrorCode(se)

\* Mutant: EncodeErrorFunc resolves the code as enhancedErrorEncoder does
EncodeErrorFuncCodeFromMapper(se) == ErrorCodeResolver(se)

\* encoder.go line 74: the code EncodeErrorFunc puts in the envelope
EncodeErrorFuncCode(se) == defaultErrorCode(se)

\* Mutant: the status is the error's code, as Kratos' own error encoder does
ErrorStatusFromError(se) == IF se.isNil THEN 500 ELSE se.Code

\* handlers.go line 112, encoder.go lines 82, 88, 93: `WriteHeader(StatusOK)`
ErrorStatus(se) == 200

HttpIn(err, codec, data, method, path, fails) ==
    [err |-> err, codec |-> codec, data |-> data, method |-> method,
     path |-> path, fails |-> fails]

IdleCall ==
    [pc |-> "idle", fn |-> "", in |-> HttpIn(NilErr, "none", "nil", "GET", "/x", FALSE),
     code |-> 0, marshalFailed |-> FALSE, w |-> NewWriter(FALSE), ret |-> "nil",
     events |-> <<>>]

DoneCall(fn, in, code, marshalFailed, w, ret, events) ==
    [pc |-> "done", fn |-> fn, in |-> in, code |-> code,
     marshalFailed |-> marshalFailed, w |-> w, ret |-> ret, events |-> events]

\* What every invocation of an encoder or handler shares: one at a time, on a
\* fresh ResponseWriter
Serve ==
    /\ call.pc = "idle"
    /\ served' = served + 1
    /\ UNCHANGED <<variant, service, reqs, started, completed, ErrorCodeMapper,
                   inflightRequests, requestSize, responseSize, requestDuration,
                   requestCounter>>

\* handlers.go lines 98-122
enhancedErrorEncoder(in) ==
    LET se    == FromError(in.err)
        code  == ErrorCodeResolver(se)
        cnt   == HasSink("errorCounter")
        label == <<in.method, in.path, "server_error">>
        w1    == WriteHeader(HeaderSet(NewWriter(in.fails), jsonContentType),
                             ErrorStatus(se))
        mar   == jsonMarshalMap(code)
        data  == IF mar.ok THEN mar.body ELSE HardCoded(500)
        wr    == Write(w1, data)
        evs   == (IF cnt THEN <<EvMetric("errcount", label, 1)>> ELSE <<>>)
                 \o (IF mar.ok THEN <<>>
                     ELSE <<EvLog("errorlog", "error", EmptyBody, "")>>)
    IN  /\ Serve
        /\ call' = DoneCall("enhancedErrorEncoder", in, code, ~mar.ok, wr.w, "nil", evs)
        /\ errorCounter' = IF cnt THEN errorCounter (+) SetToBag({label})
                           ELSE errorCounter

\* encoder.go lines 72-98
EncodeErrorFunc(in) ==
    LET se    == FromError(in.err)
        code  == EncodeErrorFuncCode(se)
        res   == Response(code, "", "nil")
        cr    == CodecForRequest(in)
        w0    == NewWriter(in.fails)
        jm    == jsonMarshal(res)
        cm    == codecMarshal(cr.codec, res)
        \* lines 80-84: the marshalling error is dropped, the (then empty)
        \* body is written all the same
        fb    == Write(WriteHeader(HeaderSet(w0, jsonContentType), ErrorStatus(se)),
                       jm.body)
        \* lines 91-97
        ok    == Write(WriteHeader(HeaderSet(w0, jsonContentType), ErrorStatus(se)),
                       cm.body)
    IN  /\ Serve
        /\ call' =
             IF ~cr.ok
             THEN DoneCall("EncodeErrorFunc", in, code, ~jm.ok, fb.w, "nil", <<>>)
             ELSE IF ~cm.ok
             THEN DoneCall("EncodeErrorFunc", in, code, TRUE,
                           WriteHeader(w0, ErrorStatus(se)), "nil", <<>>)
             ELSE DoneCall("EncodeErrorFunc", in, code, FALSE, ok.w, "nil",
                           IF ok.err # "nil"
                           THEN <<EvLog("errorlog", "error", EmptyBody, "")>>
                           ELSE <<>>)
        /\ UNCHANGED errorCounter

\* encoder.go lines 38-68
ResponseEncoder(in) ==
    LET res   == Response(200, "success", in.data)
        cr    == CodecForRequest(in)
        w0    == NewWriter(in.fails)
        jm    == jsonMarshal(res)
        cm    == codecMarshal(cr.codec, res)
        fb    == Write(HeaderSet(w0, jsonContentType), jm.body)
        ok    == Write(w0, cm.body)
    IN  /\ Serve
        /\ call' =
             IF ~cr.ok
             THEN IF ~jm.ok
                  THEN DoneCall("ResponseEncoder", in, 200, TRUE,
                                WriteHeader(w0, 500), "marshal", <<>>)
                  ELSE DoneCall("ResponseEncoder", in, 200, FALSE, fb.w, fb.err, <<>>)
             ELSE IF ~cm.ok
                  THEN DoneCall("ResponseEncoder", in, 200, TRUE,
                                WriteHeader(w0, 500), "marshal", <<>>)
                  ELSE DoneCall("ResponseEncoder", in, 200, FALSE, ok.w, ok.err, <<>>)
        /\ UNCHANGED errorCounter

\* The body of both fallback handlers (handlers.go lines 27-57 / 62-92) for the
\* status and code `status` and the counter label `reason`
FallbackHandler(fn, in, status, reason) ==
    LET w1    == WriteHeader(HeaderSet(NewWriter(in.fails), jsonContentType), status)
        mar   == jsonMarshalMap(status)
        data  == IF mar.ok THEN mar.body ELSE HardCoded(status)
        wr    == Write(w1, data)
        \* lines 40-42 / 46-48: a failed write returns before the counter
        \* and the warning
        rest  == wr.err = "nil"
        cnt   == rest /\ HasSink("errorCounter")
        label == <<in.method, in.path, reason>>
        evs   == (IF mar.ok THEN <<>>
                  ELSE <<EvLog("errorlog", "error", EmptyBody, "")>>)
                 \o (IF cnt THEN <<EvMetric("errcount", label, 1)>> ELSE <<>>)
                 \o (IF rest THEN <<EvLog("warnlog", "warn", EmptyBody, "")>>
                     ELSE <<>>)
    IN  /\ Serve
        /\ call' = DoneCall(fn, in, status, ~mar.ok, wr.w, "nil", evs)
        /\ errorCounter' = IF cnt THEN errorCounter (+) SetToBag({label})
                           ELSE errorCounter

\* handlers.go lines 26-58
notFoundHandler(in) == FallbackHandler("notFoundHandler", in, 404, "not_found")

\* handlers.go lines 61-93
methodNotAllowedHandler(in) ==
    FallbackHandler("methodNotAllowedHandler", in, 405, "method_not_allowed")

\* The response is out; the server takes the next request
NextCall ==
    /\ call.pc = "done"
    /\ served < MaxServed
    /\ call' = IdleCall
    /\ UNCHANGED <<variant, service, reqs, started, completed, sinks,
                   ErrorCodeMapper, served>>

\* ----------------------------------------------------------------- inputs

HexA(len) == [i \in 1..len |-> (3 * i + 7) % 16]
HexB(len) == [i \in 1..len |-> (5 * i + 1) % 16]
HexZero(len) == [i \in 1..len |-> 0]
NotHex(len) == [i \in 1..len |-> IF i = 1 THEN 16 ELSE 1]

Traceparent(tid, sid) == <<<<0, 0>>, tid, sid, <<0, 1>>>>

ValidTraceparent == Traceparent(HexA(TraceIdHexLen), HexA(SpanIdHexLen))

\* Header values without a valid span: absent, all-zero span id, all-zero trace
\* id, a non-hex character, an over-long trace id, version ff, a fifth field
\* under version 00, a missing field
InvalidTraceparents ==
    { <<>>,
      Traceparent(HexA(TraceIdHexLen), HexZero(SpanIdHexLen)),
      Traceparent(HexZero(TraceIdHexLen), HexA(SpanIdHexLen)),
      Traceparent(NotHex(TraceIdHexLen), HexA(SpanIdHexLen)),
      Traceparent(HexA(TraceIdHexLen + 1), HexA(SpanIdHexLen)),
      <<<<15, 15>>, HexA(TraceIdHexLen), HexA(SpanIdHexLen), <<0, 1>>>>,
      Traceparent(HexA(TraceIdHexLen), HexA(SpanIdHexLen)) \o <<<<0>>>>,
      <<<<0, 0>>, HexA(TraceIdHexLen), HexA(SpanIdHexLen)>> }

Traceparents == {ValidTraceparent} \cup InvalidTraceparents

\* A span an upstream middleware put into the context
SpanB == [tid |-> HexVal(HexB(TraceIdHexLen)), sid |-> HexVal(HexB(SpanIdHexLen))]
\* A span the handler starts for its own work
SpanH == [tid |-> HexVal(HexB(TraceIdHexLen)) + 1, sid |-> HexVal(HexB(SpanIdHexLen)) + 1]

\* A span context built with a trace id and no span id: not valid
SpanHalf == [tid |-> HexVal(HexB(TraceIdHexLen)), sid |-> 0]

CtxSpans == {NoSpan, SpanB, SpanHalf}

Header(tp, xff, xri) == [isNil |-> FALSE, traceparent |-> tp, xff |-> xff, xri |-> xri]

PlainHeader == Header(<<>>, <<>>, <<>>)

\* Every traceparent without forwarding headers, and every combination of
\* X-Forwarded-For and X-Real-IP, each absent, present but empty, or set
Headers ==
    { Header(tp, <<>>, <<>>) : tp \in Traceparents }
    \cup { Header(<<>>, xff, xri) : xff \in {<<>>, <<"">>, <<"1.1.1.1">>},
                                    xri \in {<<>>, <<"">>, <<"2.2.2.2">>} }

Payload(kind, id, json, wire) == [kind |-> kind, id |-> id, json |-> json, wire |-> wire]

Payloads(id) ==
    { Payload("proto", id, 20, 10),
      Payload("proto", id, maxBodySize, 700000),
      Payload("proto", id, maxBodySize + 1, 700001),
      Payload("protobad", id, 0, 0),
      Payload("plain", id, 20, 0),
      Payload("plain", id, maxBodySize + 1, 0) }

CtxErrs == {"canceled", "deadline_exceeded"}
HandlerErrs == {"nil", "E1"}

Input(ctxErr, hasTr, ctxSpan, header, req, method, api) ==
    [ctxErr |-> ctxErr, hasTr |-> hasTr, ctxSpan |-> ctxSpan, header |-> header,
     req |-> req, method |-> method, api |-> api]

DefaultReq == Payload("proto", "req", 20, 10)
DefaultReply == Payload("proto", "rep", 20, 10)

\* What a single request may look like at entry.  Only what the path taken
\* reads is varied; on the path with a transport the trace inputs (context
\* span and headers) and the payload inputs (request value and HTTP method)
\* are each varied in full with the other at its default.
RichInputs ==
    { Input(e, FALSE, NoSpan, NilHeader, NilPayload, "GET", "opA") : e \in CtxErrs }
    \cup { Input("nil", FALSE, sp, NilHeader, rq, "GET", "opA") :
             sp \in CtxSpans, rq \in Payloads("req") }
    \cup { Input("nil", TRUE, sp, h, DefaultReq, "GET", "opA") :
             sp \in CtxSpans, h \in Headers }
    \cup { Input("nil", TRUE, NoSpan, PlainHeader, rq, m, "opA") :
             rq \in Payloads("req"), m \in Methods }

Outcome(panic, reply, err, hspan) ==
    [panic |-> panic, reply |-> reply, err |-> err, hspan |-> hspan]

RichOutcomes ==
    { Outcome(FALSE, rp, e, NoSpan) :
        rp \in Payloads("rep") \cup {NilPayload}, e \in HandlerErrs }
    \cup { Outcome(FALSE, DefaultReply, e, SpanH) : e \in HandlerErrs }
    \cup { Outcome(TRUE, NilPayload, "nil", sp) : sp \in {NoSpan, SpanH} }

\* Concurrent requests: what the shared sinks read
ConcInputs ==
    { Input("canceled", FALSE, NoSpan, NilHeader, NilPayload, "GET", "opA"),
      Input("nil", FALSE, NoSpan, NilHeader, DefaultReq, "GET", "opA") }
    \cup { Input("nil", TRUE, NoSpan, PlainHeader, DefaultReq, "GET", a) : a \in Apis }

ConcOutcomes ==
    { Outcome(FALSE, DefaultReply, "nil", NoSpan),
      Outcome(FALSE, NilPayload, "E1", NoSpan),
      Outcome(TRUE, NilPayload, "nil", NoSpan) }

\* ---------------------------------------------------------- constructions

\* TracerLogPack(), or TracerLogPackWithMetrics(service) with a nil service,
\* a complete one, or one that lacks a single sink
Constructions ==
    { <<"plain", NilService>>, <<"metrics", NilService>>, <<"metrics", FullService>> }
    \cup { <<"metrics", [isNil |-> FALSE, sinks |-> SinkNames \ {s}]>> : s \in SinkNames }

ConcConstructions ==
    { <<"metrics", FullService>>,
      <<"metrics", [isNil |-> FALSE, sinks |-> SinkNames \ {"inflightRequests"}]>> }

InitWith(cons) ==
    /\ \E c \in cons : variant = c[1] /\ service = c[2]
    /\ reqs = [s \in Slots |-> IdleReq]
    /\ started = 0
    /\ completed = 0
    /\ inflightRequests = [a \in Apis |-> 0]
    /\ requestSize = EmptyBag
    /\ responseSize = EmptyBag
    /\ requestDuration = EmptyBag
    /\ requestCounter = EmptyBag
    /\ errorCounter = EmptyBag
    /\ ErrorCodeMapper = "nil"
    /\ call = IdleCall
    /\ served = 0

\* One request, every input: the middleware as a sequential program
Init == InitWith(Constructions)

Next ==
    \/ \E in \in RichInputs : Enter(1, in, 1)
    \/ \E e \in CtxErrs : CancelCtx(1, e)
    \/ \E out \in RichOutcomes : HandlerReturn(1, out)
    \/ \E out \in RichOutcomes : DirectReturn(1, out)
    \/ After(1)
    \/ Defers(1)

Spec == Init /\ [][Next]_vars

\* Up to MaxConc requests in flight at once, MaxStarted in all, on shared sinks
InitConc == InitWith(ConcConstructions)

NextConc ==
    \E r \in Slots :
        \/ \E in \in ConcInputs : Enter(r, in, MaxStarted)
        \/ \E out \in ConcOutcomes : HandlerReturn(r, out)
        \/ \E out \in ConcOutcomes : DirectReturn(r, out)
        \/ After(r)
        \/ Defers(r)
        \/ Recycle(r)

SpecConc == InitConc /\ [][NextConc]_vars

\* The envelope layer of a ServiceHttp with or without an error counter and
\* with each ErrorCodeMapper, serving up to MaxServed responses
Mappers == {"nil", "const123456", "zero", "negated"}

HttpErrs ==
    { NilErr, PlainErr("boom"),
      KratosErr(404, "R1", "no such user", {"k1"}),
      KratosErr(404, "R2", "no such order", {}),
      KratosErr(0, "R1", "no code", {}) }

Codecs == {"none", "json", "proto"}

ErrorIns ==
    { HttpIn(e, c, "nil", m, "/x", f) :
        e \in HttpErrs, c \in Codecs, m \in Methods, f \in BOOLEAN }

ReplyIns ==
    { HttpIn(NilErr, c, d, "GET", "/x", f) :
        c \in Codecs, d \in {"nil", "value", "chan"}, f \in BOOLEAN }

RouteIns ==
    { HttpIn(NilErr, "none", "nil", m, "/x", f) : m \in Methods, f \in BOOLEAN }

InitHttp ==
    /\ variant = "metrics"
    /\ service \in {FullService,
                    [isNil |-> FALSE, sinks |-> SinkNames \ {"errorCounter"}]}
    /\ reqs = [s \in Slots |-> IdleReq]
    /\ started = 0
    /\ completed = 0
    /\ inflightRequests = [a \in Apis |-> 0]
    /\ requestSize = EmptyBag
    /\ responseSize = EmptyBag
    /\ requestDuration = EmptyBag
    /\ requestCounter = EmptyBag
    /\ errorCounter = EmptyBag
    /\ ErrorCodeMapper \in Mappers
    /\ call = IdleCall
    /\ served = 0

NextHttp ==
    \/ \E in \in ErrorIns : enhancedErrorEncoder(in)
    \/ \E in \in ErrorIns : EncodeErrorFunc(in)
    \/ \E in \in ReplyIns : ResponseEncoder(in)
    \/ \E in \in RouteIns : notFoundHandler(in)
    \/ \E in \in RouteIns : methodNotAllowedHandler(in)
    \/ NextCall

SpecHttp == InitHttp /\ [][NextHttp]_vars

\* ----------------------------------------------------------------- claims

Count(evs, name) == Cardinality({i \in DOMAIN evs : evs[i].ev = name})

Names(evs) == [i \in DOMAIN evs |-> evs[i].ev]

IsPrefix(s, t) == Len(s) <= Len(t) /\ SubSeq(t, 1, Len(s)) = s

Finished(rq) == rq.pc \in {"done", "panicked"}

SinksUntouched ==
    /\ inflightRequests = [a \in Apis |-> 0]
    /\ requestSize = EmptyBag
    /\ responseSize = EmptyBag
    /\ requestDuration = EmptyBag
    /\ requestCounter = EmptyBag
    /\ errorCounter = EmptyBag

\* C1: in both middlewares, a request whose context is already cancelled or
\* expired at entry never reaches the handler, emits no log, triggers no trace
\* extraction, sets no reply header and updates no metric, and the middleware
\* returns a nil reply with the context's error.
C1_CancelledAtEntryShortCircuits ==
    \A r \in Slots :
        (reqs[r].pc # "idle" /\ reqs[r].entryErr # "nil") =>
            /\ reqs[r].pc = "done"
            /\ reqs[r].events = <<>>
            /\ reqs[r].replyHeader = NoReplyHeader
            /\ SinksUntouched
            /\ reqs[r].ret = [set |-> TRUE, reply |-> NilPayload,
                              err |-> reqs[r].entryErr]

C1_Witness ==
    /\ variant = "metrics"
    /\ service = FullService
    /\ reqs[1].pc = "done"
    /\ reqs[1].entryErr = "deadline_exceeded"
    /\ reqs[1].ret.err = "deadline_exceeded"

\* C2: a request whose context is not cancelled at entry has its handler
\* invoked exactly once, from the moment the middleware has passed its entry
\* checks until it is over, with or without a transport, whether or not the
\* request marshals, in both middlewares.
C2_HandlerInvokedExactlyOnce ==
    \A r \in Slots :
        (reqs[r].pc # "idle" /\ reqs[r].entryErr = "nil") =>
            Count(reqs[r].events, "invoke") = 1

C2_Witness ==
    /\ variant = "metrics"
    /\ reqs[1].pc = "done"
    /\ reqs[1].hasTr
    /\ reqs[1].req.kind = "protobad"
    /\ Count(reqs[1].events, "invoke") = 1
    /\ Count(reqs[1].events, "return") = 1

\* C3: on the path with a transport the request log comes before the call of
\* the handler, the handler's return before the response log, and the
\* Trace-Id/Span-Id annotation after the response log; none of these events
\* occurs twice, and a request whose handler returned goes through all of them.
OrderedEvents == <<"reqlog", "invoke", "return", "resplog", "headers">>

IsOrderedEvent(n) == n \in {"reqlog", "invoke", "return", "resplog", "headers"}

C3_EventsInStrictOrder ==
    \A r \in Slots :
        (reqs[r].pc # "idle" /\ reqs[r].hasTr) =>
            LET o == SelectSeq(Names(reqs[r].events), IsOrderedEvent)
            IN  IF reqs[r].panicked
                THEN \/ o = <<"reqlog", "invoke">>
                     \/ o = <<"reqlog", "invoke", "headers">> /\ reqs[r].pc = "panicked"
                ELSE /\ IsPrefix(o, OrderedEvents)
                     /\ Len(o) >= 2
                     /\ reqs[r].pc = "done" => o = OrderedEvents

C3_Witness ==
    /\ variant = "metrics"
    /\ reqs[1].pc = "done"
    /\ reqs[1].hasTr
    /\ SelectSeq(Names(reqs[1].events), IsOrderedEvent) = OrderedEvents

\* C4: on the path with a transport, once the middleware is over (handler
\* returned a reply, returned an error, or panicked) the reply header holds the
\* Trace-Id and Span-Id of the identity bound at entry, whatever span the
\* handler put into a context of its own.
C4_ReplyHeaderCarriesEntryIdentity ==
    \A r \in Slots :
        (reqs[r].hasTr /\ Finished(reqs[r])) =>
            LET ids == traceIDAndSpanIDFromSpan(
                           extractTraceContextFromRequest(reqs[r].ctxSpan,
                                                          reqs[r].header))
            IN  /\ reqs[r].replyHeader.TraceId = ids.traceID
                /\ reqs[r].replyHeader.SpanId = ids.spanID
                /\ reqs[r].replyHeader.TraceId # <<>>
                /\ reqs[r].replyHeader.SpanId # <<>>

C4_Witness ==
    /\ reqs[1].pc = "panicked"
    /\ reqs[1].hasTr
    /\ reqs[1].hspan = SpanH
    /\ reqs[1].replyHeader.TraceId = HexA(TraceIdHexLen)
    /\ reqs[1].replyHeader.SpanId = HexA(SpanIdHexLen)

\* C5: what the middleware returns is what the handler returned, reply and
\* error unchanged, for every request not cancelled at entry; a request
\* cancelled at entry returns nil and the context's error.  A request or reply
\* that fails to marshal or is oversized, and a nil service or sink, change
\* nothing of it.
C5_ReturnsHandlerResultUnchanged ==
    \A r \in Slots :
        reqs[r].pc = "done" =>
            IF reqs[r].entryErr # "nil"
            THEN reqs[r].ret = [set |-> TRUE, reply |-> NilPayload,
                                err |-> reqs[r].entryErr]
            ELSE /\ reqs[r].hret.set
                 /\ reqs[r].ret = reqs[r].hret

C5_Witness ==
    /\ variant = "metrics"
    /\ service = NilService
    /\ reqs[1].pc = "done"
    /\ reqs[1].hasTr
    /\ reqs[1].req.json > maxBodySize
    /\ reqs[1].hret.reply.kind = "protobad"
    /\ reqs[1].hret.err = "E1"
    /\ reqs[1].ret.reply.kind = "protobad"
    /\ reqs[1].ret.err = "E1"

\* C6: with a live context but no transport the middleware logs one warning,
\* calls the handler with the context and request it received and returns the
\* handler's result; it extracts no trace, logs no request or response, sets
\* no reply header and updates no sink.
C6_NoTransportCallsHandlerDirectly ==
    \A r \in Slots :
        (reqs[r].pc # "idle" /\ reqs[r].entryErr = "nil" /\ ~reqs[r].hasTr) =>
            LET evs == reqs[r].events
            IN  /\ Len(evs) >= 2
                /\ evs[1] = EvLog("warn", "warn", EmptyBody, "")
                /\ evs[2] = EvInvoke(reqs[r].ctxSpan, reqs[r].req)
                /\ \A i \in DOMAIN evs : i > 2 => evs[i].ev \in {"return", "panic"}
                /\ Len(evs) <= 3
                /\ reqs[r].replyHeader = NoReplyHeader
                /\ SinksUntouched
                /\ reqs[r].pc = "done" => reqs[r].ret = reqs[r].hret

C6_Witness ==
    /\ variant = "metrics"
    /\ service = FullService
    /\ reqs[1].pc = "done"
    /\ reqs[1].entryErr = "nil"
    /\ ~reqs[1].hasTr
    /\ reqs[1].ctxSpan = SpanB
    /\ Count(reqs[1].events, "warn") = 1
    /\ reqs[1].ret.err = "E1"

\* C7 as stated: a request with a valid traceparent is answered with the
\* header's trace id and span id, and every request without a valid
\* traceparent with "none"/"none", also when its context already carries a
\* valid span.
C7_Original ==
    \A r \in Slots :
        (reqs[r].hasTr /\ Finished(reqs[r])) =>
            IF reqs[r].header.traceparent = ValidTraceparent
            THEN /\ reqs[r].replyHeader.TraceId = reqs[r].header.traceparent[2]
                 /\ reqs[r].replyHeader.SpanId = reqs[r].header.traceparent[3]
            ELSE /\ reqs[r].replyHeader.TraceId = traceIDNone
                 /\ reqs[r].replyHeader.SpanId = spanIDNone

\* C7 as amended: a request with a valid traceparent is answered with the
\* header's trace id and span id; a request without one is answered with the
\* ids of the valid span its context already carries, and with "none"/"none"
\* when the context carries no valid span.
C7_HeaderElseContextElseNone ==
    \A r \in Slots :
        (reqs[r].hasTr /\ Finished(reqs[r])) =>
            IF reqs[r].header.traceparent = ValidTraceparent
            THEN /\ reqs[r].replyHeader.TraceId = reqs[r].header.traceparent[2]
                 /\ reqs[r].replyHeader.SpanId = reqs[r].header.traceparent[3]
            ELSE IF reqs[r].ctxSpan = SpanB
            THEN /\ reqs[r].replyHeader.TraceId = HexB(TraceIdHexLen)
                 /\ reqs[r].replyHeader.SpanId = HexB(SpanIdHexLen)
            ELSE /\ reqs[r].replyHeader.TraceId = traceIDNone
                 /\ reqs[r].replyHeader.SpanId = spanIDNone

C7_Witness ==
    /\ reqs[1].pc = "done"
    /\ reqs[1].hasTr
    /\ reqs[1].ctxSpan = SpanB
    /\ reqs[1].header.traceparent = <<>>
    /\ reqs[1].replyHeader.TraceId = HexB(TraceIdHexLen)
    /\ reqs[1].replyHeader.SpanId = HexB(SpanIdHexLen)

\* C8: extract leaves the identity of the context as it was whenever the
\* context already carries a valid span, the headers carry no traceparent, or
\* the header set is nil, whatever else the headers contain.
C8_ExtractKeepsBoundIdentity ==
    \A r \in Slots :
        (/\ reqs[r].pc # "idle"
         /\ reqs[r].hasTr
         /\ \/ IsValid(reqs[r].ctxSpan)
            \/ reqs[r].header.traceparent = <<>>
            \/ reqs[r].header.isNil) =>
            /\ reqs[r].ctx = reqs[r].ctxSpan
            /\ reqs[r].traceID = traceIDAndSpanIDFromSpan(reqs[r].ctxSpan).traceID
            /\ reqs[r].spanID = traceIDAndSpanIDFromSpan(reqs[r].ctxSpan).spanID

\* C9: with a non-nil in-flight gauge, under every interleaving, a request of
\* the metrics middleware that has a transport increments the gauge of its
\* operation once before it calls the handler and decrements it once when it
\* is over, by return or by panic; the gauge of an operation is never
\* negative, equals the number of requests of that operation between their
\* increment and their decrement, and is back at zero when no request runs.
Index(evs, name) == CHOOSE i \in DOMAIN evs : evs[i].ev = name

InFlight(a) ==
    {r \in Slots : /\ reqs[r].api = a
                   /\ Count(reqs[r].events, "gauge_inc") = 1
                   /\ Count(reqs[r].events, "gauge_dec") = 0}

C9_GaugeCountsRequestsInFlight ==
    HasSink("inflightRequests") =>
        /\ \A a \in Apis :
              /\ inflightRequests[a] >= 0
              /\ inflightRequests[a] = Cardinality(InFlight(a))
        /\ (\A r \in Slots : reqs[r].pc \in {"idle", "done", "panicked"}) =>
              \A a \in Apis : inflightRequests[a] = 0
        /\ \A r \in Slots :
              (reqs[r].hasTr /\ reqs[r].pc # "idle") =>
                  LET evs == reqs[r].events
                  IN  /\ Count(evs, "gauge_inc") = 1
                      /\ evs[Index(evs, "gauge_inc")].label = <<reqs[r].api>>
                      /\ Index(evs, "gauge_inc") < Index(evs, "invoke")
                      /\ Count(evs, "gauge_dec") =
                            (IF Finished(reqs[r]) THEN 1 ELSE 0)
                      /\ Finished(reqs[r]) =>
                            /\ evs[Index(evs, "gauge_dec")].label = <<reqs[r].api>>
                            /\ \E i \in DOMAIN evs :
                                  /\ evs[i].ev \in {"return", "panic"}
                                  /\ i < Index(evs, "gauge_dec")

C9_Witness ==
    /\ HasSink("inflightRequests")
    /\ reqs[1].pc = "panicked"
    /\ reqs[1].hasTr
    /\ reqs[1].api = "opA"
    /\ Count(reqs[1].events, "gauge_dec") = 1
    /\ reqs[2].pc = "handler"
    /\ reqs[2].api = "opA"
    /\ inflightRequests["opA"] = 1
    /\ started = MaxStarted

\* C10: with non-nil sinks, a request of the metrics middleware that has a
\* transport and whose handler returned increments the request counter once,
\* labelled "success" exactly when the handler returned no error and "error"
\* otherwise, and the error counter once exactly when the handler returned an
\* error; so the "error" count of the request counter equals the error
\* counter's count, and success plus error equals the number of requests that
\* returned.
WithStatus(bag, status) ==
    BagCardinality([e \in {x \in DOMAIN bag : x[3] = status} |-> bag[e]])

ReturnPending == {r \in Slots : reqs[r].pc = "defers" /\ ~reqs[r].panicked}

C10_CountersAgreeWithOutcomes ==
    /\ \A r \in Slots :
          (reqs[r].hasTr /\ reqs[r].hret.set /\ reqs[r].pc \in {"defers", "done"}) =>
              LET evs == reqs[r].events
                  st  == IF reqs[r].hret.err = "nil" THEN "success" ELSE "error"
              IN  /\ Count(evs, "counter") = 1
                  /\ evs[Index(evs, "counter")].label[2] = reqs[r].api
                  /\ evs[Index(evs, "counter")].label[3] = st
                  /\ Count(evs, "errcount") =
                        (IF reqs[r].hret.err = "nil" THEN 0 ELSE 1)
    /\ \A r \in Slots :
          (reqs[r].pc \in {"handler", "returned"} \/ reqs[r].panicked) =>
              /\ Count(reqs[r].events, "counter") = 0
              /\ Count(reqs[r].events, "errcount") = 0
    /\ WithStatus(requestCounter, "error") = BagCardinality(errorCounter)
    /\ WithStatus(requestCounter, "success") + WithStatus(requestCounter, "error")
          = completed + Cardinality(ReturnPending)

C10_Witness ==
    /\ \A r \in Slots : reqs[r].pc \in {"idle", "done", "panicked"}
    /\ completed = 2
    /\ WithStatus(requestCounter, "success") = 1
    /\ WithStatus(requestCounter, "error") = 1
    /\ BagCardinality(errorCounter) = 1

\* What the middleware does on the logger, the handler and the reply header
\* for a request with a transport that the handler answered, whatever the sinks
IsMetricEvent(e) ==
    e.ev \in {"gauge_inc", "gauge_dec", "reqsize", "duration", "counter",
              "respsize", "errcount"}

IsPlainEvent(e) == ~IsMetricEvent(e)

PlainEvents(rq) ==
    <<Ev("extract"),
      EvLog("reqlog", "info", LogBody(rq.req), getClientIP(rq.header)),
      EvInvoke(rq.ctx, rq.req),
      Ev("return"),
      EvLog("resplog", IF rq.hret.err # "nil" THEN "error" ELSE "info",
            LogBody(rq.hret.reply), ""),
      Ev("headers")>>

\* Whether the code reaches the recording on the sink for this request
SinkApplies(name, rq) ==
    CASE name = "requestSize"  -> rq.req.kind = "proto"
      [] name = "responseSize" -> rq.hret.reply.kind = "proto"
      [] name = "errorCounter" -> rq.hret.err # "nil"
      [] OTHER -> TRUE

SinkEvents(name) ==
    CASE name = "inflightRequests" -> {"gauge_inc", "gauge_dec"}
      [] name = "requestSize"      -> {"reqsize"}
      [] name = "responseSize"     -> {"respsize"}
      [] name = "requestDuration"  -> {"duration"}
      [] name = "requestCounter"   -> {"counter"}
      [] name = "errorCounter"     -> {"errcount"}

SinkBag(name) ==
    CASE name = "requestSize"      -> requestSize
      [] name = "responseSize"     -> responseSize
      [] name = "requestDuration"  -> requestDuration
      [] name = "requestCounter"   -> requestCounter
      [] name = "errorCounter"     -> errorCounter

\* C11: recording is per sink.  For a request with a transport that the
\* handler answered, each sink is recorded on exactly when the variant is the
\* metrics one, the service is non-nil, that sink is non-nil and the request
\* reaches its recording, whatever the other sinks are; the logs, the handler
\* call, the reply header and the returned pair do not depend on the service;
\* and a nil service records nothing at all, as the plain variant does.
C11_RecordingIsPerSink ==
    /\ (variant = "plain" \/ service.isNil) => SinksUntouched
    /\ \A r \in Slots :
         LET rq == reqs[r]
         IN  (rq.pc = "done" /\ rq.hasTr) =>
               /\ SelectSeq(rq.events, IsPlainEvent) = PlainEvents(rq)
               /\ rq.ret = rq.hret
               /\ rq.replyHeader.TraceId = rq.traceID
               /\ rq.replyHeader.SpanId = rq.spanID
               /\ \A s \in SinkNames :
                    LET on == variant = "metrics" /\ ~service.isNil
                              /\ s \in service.sinks /\ SinkApplies(s, rq)
                    IN  /\ \A n \in SinkEvents(s) :
                             Count(rq.events, n) = IF on THEN 1 ELSE 0
                        /\ s # "inflightRequests" =>
                             BagCardinality(SinkBag(s)) = IF on THEN 1 ELSE 0

\* A failed request on a service that lacks only the duration histogram: the
\* counter, the error counter and the gauge are recorded, the histogram is not
C11_Witness ==
    \E r \in Slots :
        /\ reqs[r].pc = "done" /\ reqs[r].hasTr
        /\ variant = "metrics"
        /\ service.sinks = SinkNames \ {"requestDuration"}
        /\ reqs[r].hret.err # "nil"
        /\ Count(reqs[r].events, "counter") = 1
        /\ Count(reqs[r].events, "errcount") = 1
        /\ Count(reqs[r].events, "gauge_dec") = 1
        /\ Count(reqs[r].events, "duration") = 0

\* The body string of the request log and of the response log of a request
Logged(rq, name) ==
    LET i == CHOOSE k \in DOMAIN rq.events : rq.events[k].ev = name
    IN  rq.events[i].body

HasLogged(rq, name) == \E k \in DOMAIN rq.events : rq.events[k].ev = name

\* The payloads a request logged, each with the name of its log line
LoggedPayloads(rq) ==
    (IF HasLogged(rq, "reqlog") THEN {<<rq.req, "reqlog">>} ELSE {})
    \cup (IF HasLogged(rq, "resplog") THEN {<<rq.hret.reply, "resplog">>} ELSE {})

IsPlaceholder(b, size) == b.form = "too_large" /\ b.size = size /\ b.id = ""

IsContent(b, p) == b.form \in {"json", "gosyntax"} /\ b.id = p.id

C19_LabelsCarryRequestMethod ==
    \A r \in Slots : \A k \in DOMAIN reqs[r].events :
        LET e == reqs[r].events[k]
        IN  e.ev \in {"reqsize", "duration", "counter", "respsize", "errcount"} =>
              e.label[1] = reqs[r].method

\* C20: a context cancelled after the entry check, while the handler runs or
\* once it has returned, changes nothing of what the middleware does next:
\* the response log is written, Trace-Id and Span-Id are set, every non-nil
\* sink is recorded on, the gauge is decremented, and the handler's own reply
\* and error are returned, not the context's error.
C20_CancellationCheckedOnlyAtEntry ==
    \A r \in Slots :
        LET rq == reqs[r]
        IN  (rq.pc = "done" /\ rq.hasTr /\ rq.entryErr = "nil" /\ rq.ctxErr # "nil") =>
              /\ rq.ret = rq.hret
              /\ rq.ret.err # rq.ctxErr
              /\ Count(rq.events, "resplog") = 1
              /\ Count(rq.events, "headers") = 1
              /\ rq.replyHeader.TraceId = rq.traceID
              /\ rq.replyHeader.SpanId = rq.spanID
              /\ variant = "metrics" =>
                    /\ Count(rq.events, "duration") =
                          IF HasSink("requestDuration") THEN 1 ELSE 0
                    /\ Count(rq.events, "counter") =
                          IF HasSink("requestCounter") THEN 1 ELSE 0
                    /\ Count(rq.events, "gauge_dec") =
                          IF HasSink("inflightRequests") THEN 1 ELSE 0
                    /\ HasSink("inflightRequests") => inflightRequests[rq.api] = 0

\* A request cancelled in flight whose handler still answered without error
C20_Witness ==
    \E r \in Slots :
        /\ reqs[r].pc = "done" /\ reqs[r].hasTr
        /\ reqs[r].entryErr = "nil" /\ reqs[r].ctxErr = "canceled"
        /\ variant = "metrics" /\ service.sinks = SinkNames
        /\ reqs[r].ret.set /\ reqs[r].ret.err = "nil"
        /\ reqs[r].ret.reply.kind = "proto"
        /\ Count(reqs[r].events, "counter") = 1

\* A finished invocation of the named encoder or handler
Served(fn) == call.pc = "done" /\ call.fn = fn

IsErrorEncoder(fn) == fn \in {"enhancedErrorEncoder", "EncodeErrorFunc"}

\* The envelope that holds the code and nothing else
CodeOnly(b, code) == b.fields = {"code"} /\ b.code = code

\* C12: the code enhancedErrorEncoder resolves is the installed mapper's
\* return value as it is (also zero or negative); with no mapper it is the
\* normalized error's code when that is non-zero, and 500 when it is zero or
\* the error is nil.  That code is the one in the envelope.
C12_ResolverTotalAndUnclamped ==
    Served("enhancedErrorEncoder") =>
        LET e == call.in.err
            normalized == IF e.kind = "kratos" THEN e.code ELSE 500
        IN  /\ ErrorCodeMapper = "const123456" => call.code = 123456
            /\ ErrorCodeMapper = "zero" => call.code = 0
            /\ ErrorCodeMapper = "negated" =>
                 call.code = IF e.kind = "nil" THEN 0 - 1 ELSE 0 - normalized
            /\ ErrorCodeMapper = "nil" =>
                 call.code = IF e.kind = "nil" \/ normalized = 0 THEN 500
                             ELSE normalized
            /\ call.w.wrote /\ CodeOnly(call.w.body, call.code)

\* A mapper's negative result and a mapper's zero are both possible; here the
\* negative one, written to the envelope as it is
C12_Witness ==
    /\ Served("enhancedErrorEncoder")
    /\ ErrorCodeMapper = "negated"
    /\ call.in.err.kind = "kratos" /\ call.in.err.code = 404
    /\ call.code = 0 - 404
    /\ CodeOnly(call.w.body, 0 - 404)

\* C13: what an error encoder writes as the body is the envelope that holds
\* the resolved code and nothing else, so it is the same for any two errors
\* that resolve to the same code, and it has no message, data or error text.
C13_BodyDependsOnlyOnCode ==
    (call.pc = "done" /\ IsErrorEncoder(call.fn)) =>
        /\ call.w.wrote
        /\ CodeOnly(call.w.body, call.code)

\* C14: whichever error encoder runs, with or without a negotiated codec,
\* whether marshalling succeeds or fails, and whatever the error and its
\* resolved code, the status written is 200.
C14_ErrorStatusIsAlwaysOK ==
    (call.pc = "done" /\ IsErrorEncoder(call.fn)) => call.w.status = 200

\* An error of code 404 encoded by EncodeErrorFunc whose codec fails to marshal
C14_Witness ==
    /\ Served("EncodeErrorFunc")
    /\ call.in.err.kind = "kratos" /\ call.in.err.code = 404
    /\ call.in.codec = "proto" /\ call.marshalFailed
    /\ call.w.status = 200

\* C15: ResponseEncoder, EncodeErrorFunc and enhancedErrorEncoder always hand
\* a body to the client; when marshalling the envelope fails, that body is a
\* hard-coded envelope holding a fixed code only.
C15_MarshalFailureStillWritesEnvelope ==
    (call.pc = "done"
       /\ call.fn \in {"ResponseEncoder", "EncodeErrorFunc", "enhancedErrorEncoder"}) =>
        /\ call.w.wrote
        /\ call.marshalFailed => call.w.body.fields = {"code"}

\* C16 as stated: with a mapper installed that returns 123456, the envelope
\* of either error encoder holds 123456.
C16_Original ==
    (call.pc = "done" /\ IsErrorEncoder(call.fn) /\ ErrorCodeMapper = "const123456"
       /\ call.w.wrote) =>
        call.w.body.code = 123456

\* C16: enhancedErrorEncoder resolves the envelope's code through the
\* installed mapper (123456 for the mapper that returns 123456) and through
\* the default rule when none is installed; EncodeErrorFunc always uses the
\* default rule (the error's code, or 500), whatever mapper is installed.
C16_OnlyEnhancedEncoderUsesMapper ==
    LET e == call.in.err
        default == IF e.kind = "kratos" /\ e.code # 0 THEN e.code ELSE 500
    IN  /\ (Served("enhancedErrorEncoder") /\ ErrorCodeMapper = "const123456") =>
              (call.w.wrote /\ CodeOnly(call.w.body, 123456))
        /\ (Served("enhancedErrorEncoder") /\ ErrorCodeMapper = "nil") =>
              (call.w.wrote /\ CodeOnly(call.w.body, default))
        /\ (Served("EncodeErrorFunc") /\ call.w.wrote) =>
              CodeOnly(call.w.body, default)

\* The mapper that returns 123456 is installed and EncodeErrorFunc writes 404
C16_Witness ==
    /\ Served("EncodeErrorFunc")
    /\ ErrorCodeMapper = "const123456"
    /\ call.in.err.kind = "kratos" /\ call.in.err.code = 404
    /\ call.w.wrote /\ CodeOnly(call.w.body, 404)

\* The status, code and counter label of a fallback handler
FallbackStatus(fn) == IF fn = "notFoundHandler" THEN 404 ELSE 405
FallbackReason(fn) == IF fn = "notFoundHandler" THEN "not_found"
                      ELSE "method_not_allowed"

\* C18: a request that reaches the unmatched-route handler gets status 404
\* and a body holding code 404 only, the error counter labelled (method, path,
\* "not_found") is incremented once and one warning is logged, also when the
\* write of the body fails; the unsupported-method handler does the same with
\* 405 and "method_not_allowed"; a nil error counter changes nothing else.
C18_FallbackHandlersCountAndWarn ==
    (call.pc = "done" /\ call.fn \in {"notFoundHandler", "methodNotAllowedHandler"}) =>
        /\ call.w.status = FallbackStatus(call.fn)
        /\ call.w.wrote /\ CodeOnly(call.w.body, FallbackStatus(call.fn))
        /\ Count(call.events, "warnlog") = 1
        /\ Count(call.events, "errcount") = IF HasSink("errorCounter") THEN 1 ELSE 0
        /\ \A k \in DOMAIN call.events :
             call.events[k].ev = "errcount" =>
               call.events[k].label =
                 <<call.in.method, call.in.path, FallbackReason(call.fn)>>

\* The events from the response log on
IsLateEvent(n) ==
    n \in {"resplog", "duration", "counter", "respsize", "errcount", "gauge_dec",
           "headers"}

IsAfterCallMetric(n) == n \in {"duration", "counter", "respsize", "errcount"}

\* C21 as stated: in the metrics variant the Trace-Id/Span-Id headers are
\* annotated after the response log and before the duration histogram, the
\* request counter, the response-size histogram and the error counter are
\* recorded.
C21_Original ==
    \A r \in Slots :
        LET rq == reqs[r]
        IN  (variant = "metrics" /\ rq.pc = "done" /\ rq.hasTr) =>
              /\ Index(rq.events, "resplog") < Index(rq.events, "headers")
              /\ \A k \in DOMAIN rq.events :
                   IsAfterCallMetric(rq.events[k].ev) =>
                     Index(rq.events, "headers") < k

\* C21: in the metrics variant a request whose handler returned ends in this
\* order: the response log; then the duration histogram, the request counter,
\* the response-size histogram and the error counter, each if it is recorded
\* at all; then the deferred decrement of the gauge; and last the deferred
\* annotation of Trace-Id and Span-Id, after which the request is done.
C21_HeadersAnnotatedAfterMetrics ==
    \A r \in Slots :
        LET rq == reqs[r]
            on(s) == HasSink(s) /\ SinkApplies(s, rq)
            opt(s, n) == IF on(s) THEN <<n>> ELSE <<>>
        IN  (variant = "metrics" /\ rq.pc = "done" /\ rq.hasTr) =>
              /\ SelectSeq(Names(rq.events), IsLateEvent) =
                   <<"resplog">>
                   \o opt("requestDuration", "duration")
                   \o opt("requestCounter", "counter")
                   \o opt("responseSize", "respsize")
                   \o opt("errorCounter", "errcount")
                   \o opt("inflightRequests", "gauge_dec")
                   \o <<"headers">>
              /\ rq.events[Len(rq.events)].ev = "headers"

\* A failed request with a proto reply on a complete service: all four
\* recordings lie between the response log and the header annotation
C21_Witness ==
    \E r \in Slots :
        LET rq == reqs[r]
        IN  /\ variant = "metrics" /\ service.sinks = SinkNames
            /\ rq.pc = "done" /\ rq.hasTr
            /\ rq.hret.err # "nil" /\ rq.hret.reply.kind = "proto"
            /\ \A n \in {"duration", "counter", "respsize", "errcount"} :
                 /\ Count(rq.events, n) = 1
                 /\ Index(rq.events, "resplog") < Index(rq.events, n)
                 /\ Index(rq.events, n) < Index(rq.events, "headers")

\* C22: the client IP the request log carries is the value of X-Forwarded-For
\* when that is non-empty, whatever X-Real-IP is; otherwise the value of
\* X-Real-IP when that is non-empty, also when X-Forwarded-For is present
\* with an empty value; otherwise "unknown".
C22_ForwardedForThenRealIP ==
    \A r \in Slots :
        LET rq == reqs[r]
            f  == rq.header.xff
            x  == rq.header.xri
            set(v) == v # <<>> /\ v[1] # ""
        IN  (rq.hasTr /\ HasLogged(rq, "reqlog")) =>
              LET ip == rq.events[Index(rq.events, "reqlog")].ip
              IN  /\ set(f) => ip = f[1]
                  /\ (~set(f) /\ set(x)) => ip = x[1]
                  /\ (~set(f) /\ ~set(x)) => ip = "unknown"

\* X-Forwarded-For present with an empty value, X-Real-IP set
C22_Witness ==
    \E r \in Slots :
        /\ reqs[r].hasTr /\ HasLogged(reqs[r], "reqlog")
        /\ reqs[r].header.xff = <<"">>
        /\ reqs[r].header.xri = <<"2.2.2.2">>
        /\ reqs[r].events[Index(reqs[r].events, "reqlog")].ip = "2.2.2.2"

\* C23: the Trace-Id and Span-Id set on the reply header are either both
\* "none" or the ids of one valid span, that of the request's traceparent or
\* that of the incoming context: hex strings of full width, neither of them
\* all zeros.  A real id never comes with a "none" and no id is all zeros.
C23_BothNoneOrBothReal ==
    \A r \in Slots :
        LET rq == reqs[r]
            t  == rq.replyHeader.TraceId
            s  == rq.replyHeader.SpanId
            sources == {rq.ctxSpan, ParseTraceparent(rq.header.traceparent)}
        IN  (rq.hasTr /\ Finished(rq)) =>
              \/ t = traceIDNone /\ s = spanIDNone
              \/ /\ IsHex(t, TraceIdHexLen) /\ IsHex(s, SpanIdHexLen)
                 /\ t # HexZero(TraceIdHexLen) /\ s # HexZero(SpanIdHexLen)
                 /\ \E sp \in sources :
                      /\ sp.tid # 0 /\ sp.sid # 0
                      /\ HexVal(t) = sp.tid /\ HexVal(s) = sp.sid

\* A traceparent with a real trace id and an all-zero span id, on a context
\* whose span has a trace id and no span id: both headers are "none"
C23_Witness ==
    \E r \in Slots :
        /\ reqs[r].hasTr /\ Finished(reqs[r])
        /\ reqs[r].header.traceparent =
             Traceparent(HexA(TraceIdHexLen), HexZero(SpanIdHexLen))
        /\ reqs[r].ctxSpan = SpanHalf
        /\ reqs[r].replyHeader.TraceId = traceIDNone
        /\ reqs[r].replyHeader.SpanId = spanIDNone

====
